---- MODULE Spec2Model ----
(***************************************************************************)
(* DailyRecapService::run (src/services/digests.rs): the periodic recap    *)
(* loop.  One action per await point of the loop body; the two tables      *)
(* (summaries, daily_digests), the wall clock and the webhook are the      *)
(* environment the loop talks to.                                          *)
(***************************************************************************)
EXTENDS Integers, Sequences, FiniteSets, TLC

\* ---- bounds of the model ------------------------------------------------
MaxSummaries == 3
MaxDigests == 3
MaxTime == 2

\* ---- state ----------------------------------------------------------------
VARIABLES
    summaries,       \* table summaries: sequence of rows [id, text, timestamp]
    daily_digests,   \* table daily_digests: sequence of rows [id, text, timestamp, covered]
    clock,           \* wall clock, the source of every row's timestamp
    DISCORD_WEBHOOK, \* TRUE iff the environment variable is set
    interval_timer,  \* TRUE iff a tick of the interval is due and not yet taken
    pc,              \* the await point the loop is suspended at
    last_recap,      \* Option<timestamp>: <<>> is None, <<t>> is Some(t)
    summary_ids,     \* Vec<i64> collected from the loaded rows
    summaries_content, \* the joined texts handed to gpt::summarize
    digest,          \* the text gpt::summarize returned
    posts,           \* the payloads POSTed to the webhook so far
    calls,           \* the external calls of the latest cycle that have returned
    prev,            \* the summaries a failed cycle had loaded, while no later
                     \* cycle has stored a digest
    at_tick          \* the tables and the webhook log as the current cycle found them

vars == <<summaries, daily_digests, clock, DISCORD_WEBHOOK, interval_timer, pc,
          last_recap, summary_ids, summaries_content, digest, posts, calls, prev,
          at_tick>>

None == <<>>
Some(t) == <<t>>
NoText == <<>>

Range(s) == {s[i] : i \in 1..Len(s)}

Max(S) == CHOOSE x \in S : \A y \in S : y <= x

\* ---- the tables -----------------------------------------------------------
\* db::Summary: an immutable row; the text of row i is the token i.
Summary(i, t) == [id |-> i, text |-> i, timestamp |-> t]

SummaryIds == {summaries[i].id : i \in 1..Len(summaries)}

RowOf(i) == summaries[i]

\* All orderings of a set of rows' ids.
Orderings(S) ==
    {f \in [1..Cardinality(S) -> S] : \A i, j \in 1..Cardinality(S) : i # j => f[i] # f[j]}

\* The orderings that are ascending by timestamp (rows with equal timestamps
\* in either order).
AscByTimestamp(S) ==
    {f \in Orderings(S) :
        \A i, j \in 1..Cardinality(S) :
            i < j => RowOf(f[i]).timestamp <= RowOf(f[j]).timestamp}

\* (variant: the oldest row instead of the latest)
LastRecapOldest(dd) ==
    IF dd = <<>> THEN None ELSE Some(dd[1].timestamp)

\* SELECT id, timestamp FROM daily_digests ORDER BY timestamp DESC LIMIT 1
LastRecap(dd) ==
    IF dd = <<>> THEN None
    ELSE Some(Max({dd[i].timestamp : i \in 1..Len(dd)}))

\* (variant: an exclusive boundary)
SummariesAfter(t) ==
    AscByTimestamp({i \in SummaryIds : RowOf(i).timestamp > t})

\* SELECT * FROM summaries WHERE timestamp >= ? ORDER BY timestamp ASC
SummariesSince(t) ==
    AscByTimestamp({i \in SummaryIds : RowOf(i).timestamp >= t})

\* SELECT * FROM summaries  (no ORDER BY: the rows come in any order)
AllSummaries == Orderings(SummaryIds)

\* (variant: the watermark is ignored)
PendingRowsAll(last) == AllSummaries

\* The match on last_recap: the result sets the pending-set query may return.
PendingRows(last) ==
    IF last = None THEN AllSummaries ELSE SummariesSince(last[1])

\* summaries.iter().map(|s| s.id).collect()
IdsOf(rows) == rows

\* summaries.into_iter().map(|s| s.text).collect().join(" ")
Join(rows) == [k \in 1..Len(rows) |-> RowOf(rows[k]).text]

\* gpt::summarize on success: the service's reply.  The reply written as the
\* n-th digest is the token <<"d", n>>.
Summarized(content, n) == <<"d", n>>

\* format!("Daily Digest: {}", digest)
Payload(d) == [content |-> <<"Daily Digest: ", d>>]

\* db::insert_daily_digest returning Ok: one atomic write of the row and its
\* covered ids, timestamped with the current time.
InsertedDigest(dd, text, ids, now) ==
    Append(dd, [id |-> Len(dd) + 1, text |-> text, timestamp |-> now,
                covered |-> Range(ids)])

\* db::insert_daily_digest returning Err: nothing of the write is stored.
FailedInsert(dd) == dd

\* ---- bookkeeping of a cycle -----------------------------------------------
Returned(call, result) == Append(calls, <<call, result>>)

CallsOf(c) == {k \in 1..Len(calls) : calls[k][1] = c}

NoFailure == [failed |-> "none", ids |-> {}, watermark |-> None]

Failed(call, ids) == [failed |-> call, ids |-> Range(ids), watermark |-> last_recap]

Snapshot == [daily_digests |-> daily_digests, posts |-> posts]

Init ==
    /\ summaries = <<>>
    /\ daily_digests = <<>>
    /\ clock = 0
    /\ DISCORD_WEBHOOK \in BOOLEAN
    /\ interval_timer = TRUE
    /\ pc = "Idle"
    /\ last_recap = None
    /\ summary_ids = <<>>
    /\ summaries_content = <<>>
    /\ digest = NoText
    /\ posts = <<>>
    /\ calls = <<>>
    /\ prev = NoFailure
    /\ at_tick = Snapshot

\* ---- the environment ------------------------------------------------------
\* The upstream writer appends a summary, timestamped with the current time.
AddSummary ==
    /\ Len(summaries) < MaxSummaries
    /\ summaries' = Append(summaries, Summary(Len(summaries) + 1, clock))
    /\ UNCHANGED <<daily_digests, clock, DISCORD_WEBHOOK, pc, last_recap,
                   summary_ids, summaries_content, digest, posts, calls, prev, at_tick>>
    /\ UNCHANGED interval_timer

\* Time passes.
Advance ==
    /\ clock < MaxTime
    /\ clock' = clock + 1
    /\ UNCHANGED <<summaries, daily_digests, DISCORD_WEBHOOK, pc, last_recap,
                   summary_ids, summaries_content, digest, posts, calls, prev, at_tick>>
    /\ UNCHANGED interval_timer

\* The period of the interval elapses: a tick becomes due, whatever the loop
\* is doing.  (The first tick of a tokio interval is due at once: Init.)
TimerElapses ==
    /\ ~interval_timer
    /\ interval_timer' = TRUE
    /\ UNCHANGED <<summaries, daily_digests, clock, DISCORD_WEBHOOK, pc, last_recap,
                   summary_ids, summaries_content, digest, posts, calls, prev, at_tick>>

\* The process dies at any point and is started again: run() starts over with
\* a new interval and no locals; the tables are what they were.
Restart ==
    /\ interval_timer' = TRUE
    /\ pc' = "Idle"
    /\ last_recap' = None
    /\ summary_ids' = <<>>
    /\ summaries_content' = <<>>
    /\ digest' = NoText
    /\ calls' = <<>>
    /\ prev' = NoFailure
    /\ at_tick' = Snapshot
    /\ <<interval_timer, pc, calls, prev, at_tick>> # <<TRUE, "Idle", <<>>, NoFailure, Snapshot>>
    /\ UNCHANGED <<summaries, daily_digests, clock, DISCORD_WEBHOOK, posts>>

\* ---- the loop body --------------------------------------------------------
\* (variant: the watermark is kept in the service between cycles)
EndOfBodyKeepsWatermark ==
    /\ pc' = "Idle"
    /\ last_recap' = last_recap
    /\ summary_ids' = <<>>
    /\ summaries_content' = <<>>
    /\ digest' = NoText

\* The end of the loop body (its last statement or a `continue`): the locals
\* go out of scope and the loop awaits the next tick.
EndOfBody ==
    /\ pc' = "Idle"
    /\ last_recap' = None
    /\ summary_ids' = <<>>
    /\ summaries_content' = <<>>
    /\ digest' = NoText

\* .unwrap() on an Err: the panic unwinds out of run() and the task ends.
Panic ==
    /\ pc' = "Panicked"
    /\ last_recap' = None
    /\ summary_ids' = <<>>
    /\ summaries_content' = <<>>
    /\ digest' = NoText

\* (variant: every due tick starts a loop body, whatever the loop is doing)
TickSpawns ==
    /\ interval_timer
    /\ pc # "Panicked"
    /\ Len(daily_digests) < MaxDigests
    /\ interval_timer' = FALSE
    /\ pc' = "ResolvingWatermark"
    /\ calls' = <<>>
    /\ at_tick' = Snapshot
    /\ last_recap' = None
    /\ summary_ids' = <<>>
    /\ summaries_content' = <<>>
    /\ digest' = NoText
    /\ UNCHANGED <<summaries, daily_digests, clock, DISCORD_WEBHOOK, posts, prev>>

\* interval_timer.tick().await returns: a cycle starts and issues the
\* watermark query.
Tick ==
    /\ pc = "Idle"
    /\ interval_timer
    /\ Len(daily_digests) < MaxDigests
    /\ interval_timer' = FALSE
    /\ pc' = "ResolvingWatermark"
    /\ calls' = <<>>
    /\ at_tick' = Snapshot
    /\ UNCHANGED <<summaries, daily_digests, clock, DISCORD_WEBHOOK, last_recap,
                   summary_ids, summaries_content, digest, posts, prev>>

\* The watermark query returns a row (or none); the pending-set query is issued.
ResolveWatermarkOk ==
    /\ pc = "ResolvingWatermark"
    /\ last_recap' = LastRecap(daily_digests)
    /\ pc' = "LoadingPending"
    /\ calls' = Returned("watermark", "ok")
    /\ UNCHANGED <<summaries, daily_digests, clock, DISCORD_WEBHOOK,
                   summary_ids, summaries_content, digest, posts, prev, at_tick>>
    /\ UNCHANGED interval_timer

\* The watermark query returns Err: .unwrap() panics.
ResolveWatermarkErr ==
    /\ pc = "ResolvingWatermark"
    /\ Panic
    /\ calls' = Returned("watermark", "err")
    /\ UNCHANGED <<summaries, daily_digests, clock, DISCORD_WEBHOOK, posts, prev,
                   at_tick>>
    /\ UNCHANGED interval_timer

\* (variant: without the is_empty() check)
LoadPendingOkNoEmptyCheck ==
    /\ pc = "LoadingPending"
    /\ \E rows \in PendingRows(last_recap) :
        /\ summary_ids' = IdsOf(rows)
        /\ summaries_content' = Join(rows)
        /\ pc' = "Summarizing"
        /\ UNCHANGED <<last_recap, digest>>
    /\ calls' = Returned("pending", "ok")
    /\ UNCHANGED <<summaries, daily_digests, clock, DISCORD_WEBHOOK, posts, prev,
                   at_tick>>
    /\ UNCHANGED interval_timer

\* The pending-set query returns its rows.  Empty: `continue`.  Otherwise the
\* ids and the joined texts are collected and gpt::summarize is called.
LoadPendingOk ==
    /\ pc = "LoadingPending"
    /\ \E rows \in PendingRows(last_recap) :
        IF rows = <<>>
        THEN EndOfBody
        ELSE /\ summary_ids' = IdsOf(rows)
             /\ summaries_content' = Join(rows)
             /\ pc' = "Summarizing"
             /\ UNCHANGED <<last_recap, digest>>
    /\ calls' = Returned("pending", "ok")
    /\ UNCHANGED <<summaries, daily_digests, clock, DISCORD_WEBHOOK, posts, prev,
                   at_tick>>
    /\ UNCHANGED interval_timer

\* The pending-set query returns Err: .unwrap() panics.
LoadPendingErr ==
    /\ pc = "LoadingPending"
    /\ Panic
    /\ calls' = Returned("pending", "err")
    /\ UNCHANGED <<summaries, daily_digests, clock, DISCORD_WEBHOOK, posts, prev,
                   at_tick>>
    /\ UNCHANGED interval_timer

\* gpt::summarize returns Ok(txt): db::insert_daily_digest is called.
SummarizeOk ==
    /\ pc = "Summarizing"
    /\ digest' = Summarized(summaries_content, Len(daily_digests) + 1)
    /\ pc' = "Persisting"
    /\ calls' = Returned("summarize", "ok")
    /\ UNCHANGED <<summaries, daily_digests, clock, DISCORD_WEBHOOK, last_recap,
                   summary_ids, summaries_content, posts, prev, at_tick>>
    /\ UNCHANGED interval_timer

\* (variant: the Err arm falls through to the write with an empty text)
SummarizeErrFallsThrough ==
    /\ pc = "Summarizing"
    /\ digest' = NoText
    /\ pc' = "Persisting"
    /\ calls' = Returned("summarize", "err")
    /\ UNCHANGED <<summaries, daily_digests, clock, DISCORD_WEBHOOK, last_recap,
                   summary_ids, summaries_content, posts, prev, at_tick>>
    /\ UNCHANGED interval_timer

\* (variant: the Err arm stores a placeholder digest for the loaded ids)
SummarizeErrStoresPlaceholder ==
    /\ pc = "Summarizing"
    /\ daily_digests' = InsertedDigest(daily_digests, NoText, summary_ids, clock)
    /\ EndOfBody
    /\ calls' = Returned("summarize", "err")
    /\ prev' = Failed("summarize", summary_ids)
    /\ UNCHANGED <<summaries, clock, DISCORD_WEBHOOK, posts, at_tick>>
    /\ UNCHANGED interval_timer

\* gpt::summarize returns Err: logged, `continue`.
SummarizeErr ==
    /\ pc = "Summarizing"
    /\ EndOfBody
    /\ calls' = Returned("summarize", "err")
    /\ prev' = Failed("summarize", summary_ids)
    /\ UNCHANGED <<summaries, daily_digests, clock, DISCORD_WEBHOOK, posts, at_tick>>
    /\ UNCHANGED interval_timer

\* (variant: the covered ids are those of every summary stored at the write)
InsertOkCoversAll ==
    /\ pc = "Persisting"
    /\ \E all \in AllSummaries :
        daily_digests' = InsertedDigest(daily_digests, digest, all, clock)
    /\ calls' = Returned("write", "ok")
    /\ prev' = NoFailure
    /\ IF DISCORD_WEBHOOK
       THEN /\ posts' = Append(posts, Payload(digest))
            /\ pc' = "Notifying"
            /\ UNCHANGED <<last_recap, summary_ids, summaries_content, digest>>
       ELSE /\ EndOfBody
            /\ UNCHANGED posts
    /\ UNCHANGED <<summaries, clock, DISCORD_WEBHOOK, at_tick>>
    /\ UNCHANGED interval_timer

\* db::insert_daily_digest returns Ok: the row is stored.  With
\* DISCORD_WEBHOOK set the payload is POSTed, otherwise that is logged and the
\* loop body ends.
InsertOk ==
    /\ pc = "Persisting"
    /\ daily_digests' = InsertedDigest(daily_digests, digest, summary_ids, clock)
    /\ calls' = Returned("write", "ok")
    /\ prev' = NoFailure
    /\ IF DISCORD_WEBHOOK
       THEN /\ posts' = Append(posts, Payload(digest))
            /\ pc' = "Notifying"
            /\ UNCHANGED <<last_recap, summary_ids, summaries_content, digest>>
       ELSE /\ EndOfBody
            /\ UNCHANGED posts
    /\ UNCHANGED <<summaries, clock, DISCORD_WEBHOOK, at_tick>>
    /\ UNCHANGED interval_timer

\* (variant: the Err arm calls db::insert_daily_digest again)
InsertErrRetries ==
    /\ pc = "Persisting"
    /\ daily_digests' = FailedInsert(daily_digests)
    /\ Len(calls) < 6
    /\ calls' = Returned("write", "err")
    /\ UNCHANGED <<summaries, clock, DISCORD_WEBHOOK, pc, last_recap, summary_ids,
                   summaries_content, digest, posts, prev, at_tick>>
    /\ UNCHANGED interval_timer

\* (variant: the Err arm lacks its `continue` and goes on to the webhook)
InsertErrNotifies ==
    /\ pc = "Persisting"
    /\ daily_digests' = FailedInsert(daily_digests)
    /\ calls' = Returned("write", "err")
    /\ prev' = Failed("write", summary_ids)
    /\ IF DISCORD_WEBHOOK
       THEN /\ posts' = Append(posts, Payload(digest))
            /\ pc' = "Notifying"
            /\ UNCHANGED <<last_recap, summary_ids, summaries_content, digest>>
       ELSE /\ EndOfBody
            /\ UNCHANGED posts
    /\ UNCHANGED <<summaries, clock, DISCORD_WEBHOOK, at_tick>>
    /\ UNCHANGED interval_timer

\* db::insert_daily_digest returns Err: logged, `continue`.
InsertErr ==
    /\ pc = "Persisting"
    /\ daily_digests' = FailedInsert(daily_digests)
    /\ EndOfBody
    /\ calls' = Returned("write", "err")
    /\ prev' = Failed("write", summary_ids)
    /\ UNCHANGED <<summaries, clock, DISCORD_WEBHOOK, posts, at_tick>>
    /\ UNCHANGED interval_timer

\* (variant: a failed POST deletes the digest row it announced)
PostReturnsRollsBack ==
    /\ pc = "Notifying"
    /\ \E outcome \in {"ok", "status", "transport"} :
        /\ calls' = Returned("post", outcome)
        /\ daily_digests' = IF outcome = "ok" THEN daily_digests
                                              ELSE at_tick.daily_digests
    /\ EndOfBody
    /\ UNCHANGED <<summaries, clock, DISCORD_WEBHOOK, posts, prev, at_tick>>
    /\ UNCHANGED interval_timer

\* (variant: a POST that did not succeed is sent once more)
PostReturnsRetries ==
    /\ pc = "Notifying"
    /\ \E outcome \in {"ok", "status", "transport"} :
        /\ calls' = Returned("post", outcome)
        /\ IF outcome # "ok" /\ CallsOf("post") = {}
           THEN /\ posts' = Append(posts, Payload(digest))
                /\ UNCHANGED <<pc, last_recap, summary_ids, summaries_content, digest>>
           ELSE /\ EndOfBody
                /\ UNCHANGED posts
    /\ UNCHANGED <<summaries, daily_digests, clock, DISCORD_WEBHOOK, prev, at_tick>>
    /\ UNCHANGED interval_timer

\* The POST returns: a 2xx status, another status, or a transport error.
\* Each is only logged; the loop body ends.
PostReturns ==
    /\ pc = "Notifying"
    /\ \E outcome \in {"ok", "status", "transport"} :
        calls' = Returned("post", outcome)
    /\ EndOfBody
    /\ UNCHANGED <<summaries, daily_digests, clock, DISCORD_WEBHOOK, posts, prev,
                   at_tick>>
    /\ UNCHANGED interval_timer

Next ==
    \/ AddSummary
    \/ Advance
    \/ TimerElapses
    \/ Restart
    \/ Tick
    \/ ResolveWatermarkOk
    \/ ResolveWatermarkErr
    \/ LoadPendingOk
    \/ LoadPendingErr
    \/ SummarizeOk
    \/ SummarizeErr
    \/ InsertOk
    \/ InsertErr
    \/ PostReturns

Spec == Init /\ [][Next]_vars

\* The loop when no summarization call and no storage call ever fails.
NextNoFail ==
    \/ AddSummary
    \/ Advance
    \/ TimerElapses
    \/ Tick
    \/ ResolveWatermarkOk
    \/ LoadPendingOk
    \/ SummarizeOk
    \/ InsertOk
    \/ PostReturns

NoFailSpec == Init /\ [][NextNoFail]_vars

\* The same, with the timer firing again and again and every call returning.
FairSpec ==
    /\ Init /\ [][NextNoFail]_vars
    /\ WF_vars(TimerElapses)
    /\ WF_vars(Tick)
    /\ WF_vars(ResolveWatermarkOk)
    /\ WF_vars(LoadPendingOk)
    /\ WF_vars(SummarizeOk)
    /\ WF_vars(InsertOk)
    /\ WF_vars(PostReturns)

\* ---- vocabulary of the properties -------------------------------------------
Covered == UNION {daily_digests[i].covered : i \in 1..Len(daily_digests)}

CallFailed(c) == \E k \in CallsOf(c) : calls[k][2] # "ok"

StorageAsAtTick ==
    /\ daily_digests = at_tick.daily_digests
    /\ posts = at_tick.posts

\* The digest rows with a timestamp-maximal row's timestamp: the watermark.
Watermark == LastRecap(daily_digests)

UpToWatermark ==
    IF Watermark = None THEN {}
    ELSE {i \in SummaryIds : RowOf(i).timestamp <= Watermark[1]}

\* ---- C1 ---------------------------------------------------------------------
\* C1: in every reachable state the covered-id sets of any two distinct
\* stored digests are disjoint.
C1_CoveredSetsDisjoint ==
    \A i, j \in 1..Len(daily_digests) :
        i # j => daily_digests[i].covered \cap daily_digests[j].covered = {}

\* ---- C2 ---------------------------------------------------------------------
\* C2: with no summarization or storage failure, whenever the loop is idle the
\* covered summaries are exactly the stored summaries with a timestamp <= the
\* timestamp of the latest digest.
C2_CoveredIsAllUpToWatermark ==
    pc = "Idle" => Covered = UpToWatermark

\* ---- C3 ---------------------------------------------------------------------
\* The model stores no further digest: Tick is disabled from here on.  A run
\* that ends here is not counted against C3.
AtHorizon == Len(daily_digests) = MaxDigests

\* C3: under fair ticks and calls that succeed, every summary ever appended is
\* eventually in the covered set of some stored digest.
C3_EverySummaryEventuallyCovered ==
    \A i \in 1..MaxSummaries : (i \in SummaryIds) ~> (i \in Covered \/ AtHorizon)

\* ---- C4 ---------------------------------------------------------------------
\* C4: a storage error on the watermark query or the pending-set query aborts
\* only the cycle: nothing is written or posted and the loop is back at Idle,
\* never stopped.
C4_ReadErrorAbortsOnlyTheCycle ==
    (CallFailed("watermark") \/ CallFailed("pending")) =>
        /\ pc = "Idle"
        /\ StorageAsAtTick

\* ---- C5 ---------------------------------------------------------------------
\* C5: a cycle whose summarization call failed leaves the digest rows and
\* their covered sets as it found them and does not invoke the notifier.
C5_SummarizeFailureLeavesStorage ==
    CallFailed("summarize") =>
        /\ StorageAsAtTick
        /\ CallsOf("write") = {}
        /\ CallsOf("post") = {}

C5_Witness ==
    /\ CallFailed("summarize")
    /\ pc = "Idle"
    /\ daily_digests # <<>>
    /\ DISCORD_WEBHOOK

\* ---- C6 ---------------------------------------------------------------------
\* C6: a cycle whose digest write failed stores no digest row and no covered
\* ids, invokes no notifier and ends without a second write; the next cycle
\* loads (at least) the same summaries and calls the summarizer on them.
C6_WriteFailureLeavesSummariesPending ==
    /\ CallFailed("write") =>
        /\ StorageAsAtTick
        /\ pc = "Idle"
        /\ Cardinality(CallsOf("write")) = 1
        /\ CallsOf("post") = {}
    /\ (prev.failed = "write" /\ pc \in {"Summarizing", "Persisting", "Notifying"}) =>
        prev.ids \subseteq Range(summary_ids)
    /\ (prev.failed = "write" /\ pc = "Idle") => CallFailed("write")

C6_Witness ==
    /\ prev.failed = "write"
    /\ pc = "Summarizing"
    /\ Len(summaries) > Cardinality(prev.ids)
    /\ daily_digests # <<>>

\* ---- C7 ---------------------------------------------------------------------
\* The notification of the cycle failed: the variable is not set (the loop
\* body ended right after the write), or the POST returned a non-2xx status
\* or a transport error.
NotifyFailed ==
    \/ CallFailed("post")
    \/ pc = "Idle" /\ calls # <<>> /\ calls[Len(calls)] = <<"write", "ok">>

\* C7: after a notification failure of any kind the digest stored by the
\* cycle is still stored, beside the untouched earlier rows; the POST was
\* issued at most once and the loop is back at Idle.
C7_NotifyFailureKeepsDigest ==
    NotifyFailed =>
        /\ pc = "Idle"
        /\ Len(daily_digests) = Len(at_tick.daily_digests) + 1
        /\ SubSeq(daily_digests, 1, Len(at_tick.daily_digests)) = at_tick.daily_digests
        /\ daily_digests[Len(daily_digests)].covered # {}
        /\ Cardinality(CallsOf("post")) <= 1
        /\ Len(posts) <= Len(at_tick.posts) + 1

C7_Witness ==
    /\ CallFailed("post")
    /\ pc = "Idle"
    /\ Len(daily_digests) >= 2

\* ---- C8 ---------------------------------------------------------------------
\* C8: once every stored summary is covered by a stored digest, a cycle that
\* loads its pending set is a no-op: it ends without a summarization call.
C8_NoOpAfterFullCoverage ==
    [][(/\ pc = "LoadingPending"
        /\ pc' \in {"Idle", "Summarizing"}
        /\ daily_digests # <<>>
        /\ Covered = SummaryIds)
       => pc' = "Idle"]_vars

\* ---- C9 ---------------------------------------------------------------------
\* The cycle ended at the is_empty() check.
NoOpEnded ==
    pc = "Idle" /\ calls = << <<"watermark", "ok">>, <<"pending", "ok">> >>

\* C9: every stored digest covers at least one summary; a summarization call,
\* a write or a POST is in flight only for a non-empty pending set, and a cycle
\* that found it empty wrote and posted nothing.
C9_NoDigestOfEmptyPending ==
    /\ \A i \in 1..Len(daily_digests) : daily_digests[i].covered # {}
    /\ pc \in {"Summarizing", "Persisting", "Notifying"} => summary_ids # <<>>
    /\ NoOpEnded => StorageAsAtTick

C9_Witness ==
    /\ NoOpEnded
    /\ summaries # <<>>
    /\ daily_digests # <<>>

\* ---- C10 --------------------------------------------------------------------
CallOrder == <<"watermark", "pending", "summarize", "write", "post">>

\* The call the loop is suspended in, as its place in CallOrder (0: none).
InFlight ==
    CASE pc = "ResolvingWatermark" -> 1
      [] pc = "LoadingPending" -> 2
      [] pc = "Summarizing" -> 3
      [] pc = "Persisting" -> 4
      [] pc = "Notifying" -> 5
      [] OTHER -> 0

\* C10: the calls of a cycle return in the order watermark, pending,
\* summarize, write, post, each issued only after all earlier ones returned
\* successfully.
C10_CallsInFixedOrder ==
    /\ Len(calls) <= Len(CallOrder)
    /\ \A k \in 1..Len(calls) :
        /\ calls[k][1] = CallOrder[k]
        /\ k < Len(calls) => calls[k][2] = "ok"
    /\ InFlight # 0 =>
        /\ Len(calls) = InFlight - 1
        /\ \A k \in 1..Len(calls) : calls[k][2] = "ok"

C10_Witness ==
    /\ pc = "Idle"
    /\ Len(calls) = 5
    /\ Len(daily_digests) >= 2

\* ---- C11 --------------------------------------------------------------------
\* C11: while a cycle is running no tick is taken, also when one is due: a
\* cycle starts only when the loop is idle.
C11_OneCycleAtATime ==
    pc # "Idle" => ~ENABLED Tick

C11_Witness ==
    /\ pc = "Summarizing"
    /\ interval_timer
    /\ Len(daily_digests) < MaxDigests

\* ---- C12 --------------------------------------------------------------------
\* C12: the timestamps of the stored digests are non-decreasing in creation
\* order, and the watermark a cycle has read is the timestamp of the digest
\* created last.
C12_DigestTimestampsNonDecreasing ==
    /\ \A i, j \in 1..Len(daily_digests) :
        i < j => daily_digests[i].timestamp <= daily_digests[j].timestamp
    /\ (pc \in {"LoadingPending", "Summarizing", "Persisting"} /\ daily_digests # <<>>) =>
        last_recap = Some(daily_digests[Len(daily_digests)].timestamp)

C12_Witness ==
    /\ pc = "LoadingPending"
    /\ Len(daily_digests) >= 2
    /\ daily_digests[1].timestamp < daily_digests[2].timestamp

\* ---- C13 --------------------------------------------------------------------
\* The pending set C13 describes, for the tables as they are.
InclusivePending ==
    IF daily_digests = <<>> THEN SummaryIds
    ELSE {i \in SummaryIds :
            RowOf(i).timestamp >= daily_digests[Len(daily_digests)].timestamp}

\* C13: the pending set a cycle loads is every stored summary when no digest
\* exists, and otherwise exactly the stored summaries with a timestamp >= the
\* most recent digest's.
C13_PendingIsInclusive ==
    [][calls' = Append(calls, <<"pending", "ok">>)
       => Range(summary_ids') = InclusivePending]_vars

\* The scenario of C13: a digest with summary 2's timestamp covers {1, 2},
\* summary 3 is newer, and the next cycle has loaded {2, 3}.
C13_Witness ==
    /\ pc = "Summarizing"
    /\ Len(summaries) = 3
    /\ Len(daily_digests) = 1
    /\ daily_digests[1].covered = {1, 2}
    /\ daily_digests[1].timestamp = RowOf(2).timestamp
    /\ RowOf(1).timestamp < RowOf(2).timestamp
    /\ RowOf(3).timestamp > RowOf(2).timestamp
    /\ Range(summary_ids) = {2, 3}

\* ---- C14 --------------------------------------------------------------------
\* C14: in every cycle the input of the summarization call is the texts of
\* the pending summaries in ascending timestamp order.
C14_InputAscendingByTimestamp ==
    pc = "Summarizing" =>
        /\ summaries_content = [k \in 1..Len(summary_ids) |-> RowOf(summary_ids[k]).text]
        /\ \A i, j \in 1..Len(summary_ids) :
            i < j => RowOf(summary_ids[i]).timestamp <= RowOf(summary_ids[j]).timestamp

\* ---- C15 --------------------------------------------------------------------
\* C15: every POST carries "Daily Digest: " and the text of a stored digest,
\* no two POSTs are for the same digest, and there are never more POSTs than
\* stored digests.
C15_PostsAnnounceStoredDigests ==
    /\ \A k \in 1..Len(posts) :
        \E i \in 1..Len(daily_digests) : posts[k] = Payload(daily_digests[i].text)
    /\ \A k, l \in 1..Len(posts) : k # l => posts[k] # posts[l]
    /\ Len(posts) <= Len(daily_digests)

C15_Witness ==
    /\ pc = "Notifying"
    /\ Len(posts) = 2
    /\ prev.failed = "none"
    /\ posts[2] = [content |-> <<"Daily Digest: ", daily_digests[2].text>>]

\* ---- C16 --------------------------------------------------------------------
\* C16: after a cycle aborted by a summarization failure the next cycle reads
\* the same watermark, loads every summary the failed cycle had loaded and
\* calls the summarizer (it never ends as a no-op).
C16_SummarizeFailureRetriedNextCycle ==
    /\ (prev.failed = "summarize" /\ pc \in {"LoadingPending", "Summarizing", "Persisting"}) =>
        last_recap = prev.watermark
    /\ (prev.failed = "summarize" /\ pc \in {"Summarizing", "Persisting"}) =>
        prev.ids \subseteq Range(summary_ids)
    /\ (prev.failed = "summarize" /\ pc = "Idle") => CallFailed("summarize")

C16_Witness ==
    /\ prev.failed = "summarize"
    /\ pc = "Summarizing"
    /\ Len(calls) = 2
    /\ Cardinality(Range(summary_ids)) > Cardinality(prev.ids)
    /\ prev.watermark # None

\* ---- C17 --------------------------------------------------------------------
\* C17: the covered ids stored with a digest are exactly the ids loaded by
\* the pending-set read of the same cycle, which do not change between the
\* read and the write.
C17_CoveredIsWhatWasLoaded ==
    [][/\ (pc \in {"Summarizing", "Persisting"} /\ pc' \in {"Summarizing", "Persisting"})
            => summary_ids' = summary_ids
       /\ daily_digests' # daily_digests =>
            /\ pc = "Persisting"
            /\ Len(daily_digests') = Len(daily_digests) + 1
            /\ SubSeq(daily_digests', 1, Len(daily_digests)) = daily_digests
            /\ daily_digests'[Len(daily_digests')].covered = Range(summary_ids)]_vars

\* A digest was written by a cycle that had loaded its pending set before a
\* summary arrived: the summary is stored and not among the covered ids.
C17_Witness ==
    /\ pc = "Notifying"
    /\ Range(summary_ids) # SummaryIds
    /\ daily_digests[Len(daily_digests)].covered = Range(summary_ids)
    /\ \E i \in SummaryIds \ Range(summary_ids) :
        RowOf(i).timestamp >= daily_digests[Len(daily_digests)].timestamp

\* ---- C18 --------------------------------------------------------------------
\* C18: a cycle issues at most one summarization call, one write and one
\* POST, and a call that returned an error leaves the loop at Idle.
C18_NoRetryErrorsToIdle ==
    /\ Cardinality(CallsOf("summarize")) <= 1
    /\ Cardinality(CallsOf("write")) <= 1
    /\ Cardinality(CallsOf("post")) <= 1
    /\ (\E k \in 1..Len(calls) : calls[k][2] # "ok") => pc = "Idle"

\* ---- C19 --------------------------------------------------------------------
\* What run() holds besides the tables: nothing when it awaits a tick.
NoLocals ==
    /\ last_recap = None
    /\ summary_ids = <<>>
    /\ summaries_content = <<>>
    /\ digest = NoText

\* C19: between cycles the loop holds no state, the watermark a cycle works
\* with is the one the stored digests give, and a restart leaves the tables
\* as they were and the loop as a newly started one awaiting its first tick.
C19_NoStateAcrossCycles ==
    [][/\ pc' = "Idle" => NoLocals'
       /\ pc' = "LoadingPending" => last_recap' = LastRecap(daily_digests')
       /\ ((pc # "Idle" \/ calls # <<>>) /\ calls' = <<>> /\ pc' = "Idle") =>
            /\ interval_timer'
            /\ prev' = NoFailure
            /\ daily_digests' = daily_digests
            /\ summaries' = summaries
            /\ posts' = posts]_vars

\* A restart in the middle of a cycle that follows a stored digest.
C19_Witness ==
    /\ pc = "Idle"
    /\ calls = <<>>
    /\ daily_digests # <<>>
    /\ Len(posts) = Len(daily_digests)
    /\ SummaryIds # Covered

\* ---- C20 --------------------------------------------------------------------
\* C20: a cycle never has in its pending set a summary older than a digest
\* stored before the cycle; so no digest covers a summary older than an
\* earlier digest.
C20_OlderThanDigestNeverPending ==
    /\ pc \in {"Summarizing", "Persisting", "Notifying"} =>
        \A s \in Range(summary_ids) : \A i \in 1..Len(at_tick.daily_digests) :
            RowOf(s).timestamp >= at_tick.daily_digests[i].timestamp
    /\ \A i, j \in 1..Len(daily_digests) :
        i < j => \A s \in daily_digests[j].covered :
                    RowOf(s).timestamp >= daily_digests[i].timestamp

\* A summary older than the first digest is in no covered set, and a later
\* cycle has stored a second digest.
C20_Witness ==
    /\ Len(daily_digests) >= 2
    /\ \E s \in SummaryIds \ Covered :
        RowOf(s).timestamp < daily_digests[1].timestamp

====
